---- MODULE Spec2Model ----
(***************************************************************************)
(* pkg-deploy: the version state machine (utils.parse_prerelease,          *)
(* VersionManager.bump_version) and the deployment pipeline coordinator    *)
(* (package_deploy/__init__.py PackageDeploy.deploy, and the older         *)
(* deploy.py PackageDeployer.deploy with the strategy.py build variants).  *)
(*                                                                         *)
(* Python strings are modelled as sequences of one-character strings, so   *)
(* that parsing (the regular expression, int()) and rendering (the         *)
(* f-string, str()) are computed rather than assumed.                      *)
(***************************************************************************)
EXTENDS Integers, Sequences, FiniteSets, TLC

VARIABLES
    pipeline,       \* which entry point runs: "coordinator" | "legacy" | "version"
    pc,             \* position of the run inside the entry point
    config,         \* the DeployConfig of the run
    vm_config,      \* VersionManager.config: the manifest document held in memory
    manifest,       \* pyproject.toml on disk
    fs,             \* the other files and directories the run touches
    stage,          \* per pipeline stage: "idle" | "running" | "ok" | "failed"
    log,            \* the external commands invoked so far, in order
    outcome,        \* what the entry point returned / how the process exited
    call,           \* arguments, locals and result of the last bump_version call
    bumps,          \* number of bump_version calls made so far
    setup_file_exist,   \* PackageDeploy.setup_file_exist
    launcher_dir,   \* directory of sys.argv[0]
    pre_run,        \* the manifest and the files as they were before the run
    streak,         \* the prerelease bumps of one kind made in a row
    work_manifest,  \* the copy of pyproject.toml in the temporary directory
    args,           \* the argparse namespace of the launcher
    environ,        \* os.environ
    pypirc,         \* ~/.pypirc
    stdin,          \* what the user types at the prompts
    credentials,    \* the (username, password) the launcher resolved
    manifest_io,    \* the reads and writes of the project's pyproject.toml, in order
    git_status      \* the exit status of each git command git_push issued

vars == <<pipeline, pc, config, vm_config, manifest, fs, stage, log, outcome,
          call, bumps, setup_file_exist, launcher_dir, pre_run, streak,
          work_manifest, args, environ, pypirc, stdin, credentials,
          manifest_io, git_status>>

----------------------------------------------------------------------------
(* Bounds *)

\* bump_version calls per behaviour of the version-manager specification
MaxBumps == 2

\* largest number used for a version component of the enumerated inputs
MaxNum == 2

----------------------------------------------------------------------------
(* Python values *)

\* Python's None: a value equal to no string
None == <<"None">>

DigitChars == <<"0", "1", "2", "3", "4", "5", "6", "7", "8", "9">>

\* \d of the pattern (ASCII digits)
IsDigit(c) == \E i \in 1..10 : DigitChars[i] = c

DigitVal(c) == (CHOOSE i \in 1..10 : DigitChars[i] = c) - 1

\* int(s) for a non-empty digit string s
RECURSIVE int(_)
int(s) ==
    IF s = <<>> THEN 0
    ELSE int(SubSeq(s, 1, Len(s) - 1)) * 10 + DigitVal(s[Len(s)])

\* str(n) / f"{n}" for a non-negative integer n
RECURSIVE str(_)
str(n) ==
    IF n < 10 THEN <<DigitChars[n + 1]>>
    ELSE str(n \div 10) \o <<DigitChars[(n % 10) + 1]>>

\* index just after the longest run of digits of s that starts at index i
RECURSIVE DigitsEnd(_, _)
DigitsEnd(s, i) ==
    IF i <= Len(s) /\ IsDigit(s[i]) THEN DigitsEnd(s, i + 1) ELSE i

At(s, i) == IF i >= 1 /\ i <= Len(s) THEN s[i] ELSE ""

----------------------------------------------------------------------------
(* utils.parse_prerelease *)

\* the match of r'^(\d+)\.(\d+)\.(\d+)([abc]|rc)?(\d*)$' against version:
\* the groups' index ranges, and whether the whole pattern matches
re_match(version) ==
    LET n   == Len(version)
        e1  == DigitsEnd(version, 1)
        s2  == e1 + 1
        e2  == DigitsEnd(version, s2)
        s3  == e2 + 1
        e3  == DigitsEnd(version, s3)
        g4  == IF At(version, e3) \in {"a", "b", "c"} THEN 1
               ELSE IF At(version, e3) = "r" /\ At(version, e3 + 1) = "c" THEN 2
               ELSE 0
        s5  == e3 + g4
        e5  == DigitsEnd(version, s5)
    IN  [ matched |-> /\ e1 > 1 /\ At(version, e1) = "."
                      /\ e2 > s2 /\ At(version, e2) = "."
                      /\ e3 > s3
                      \* $ matches at the end and just before a final newline
                      /\ \/ e5 = n + 1
                         \/ e5 = n /\ version[n] = "\n",
          group1 |-> SubSeq(version, 1, e1 - 1),
          group2 |-> SubSeq(version, s2, e2 - 1),
          group3 |-> SubSeq(version, s3, e3 - 1),
          group4 |-> IF g4 = 0 THEN None ELSE SubSeq(version, e3, e3 + g4 - 1),
          group5 |-> SubSeq(version, s5, e5 - 1) ]

\* the value given to prerelease_version when no digits follow the tag
DefaultPrereleaseVersion == 1

\* a slip: groups 2 and 3 taken in the wrong order
version_dict_swapped(m) ==
    [ raised             |-> FALSE,
      major              |-> int(m.group1),
      minor              |-> int(m.group3),
      patch              |-> int(m.group2),
      prerelease_type    |-> m.group4,
      prerelease_version |-> IF m.group5 # <<>> THEN int(m.group5)
                             ELSE DefaultPrereleaseVersion,
      has_prerelease     |-> m.group4 # None ]

\* a slip: the missing number is read as 0
version_dict_default_zero(m) ==
    [ raised             |-> FALSE,
      major              |-> int(m.group1),
      minor              |-> int(m.group2),
      patch              |-> int(m.group3),
      prerelease_type    |-> m.group4,
      prerelease_version |-> IF m.group5 # <<>> THEN int(m.group5) ELSE 0,
      has_prerelease     |-> m.group4 # None ]

\* the dict returned on a match
version_dict(m) ==
    [ raised             |-> FALSE,
      major              |-> int(m.group1),
      minor              |-> int(m.group2),
      patch              |-> int(m.group3),
      prerelease_type    |-> m.group4,
      prerelease_version |-> IF m.group5 # <<>> THEN int(m.group5)
                             ELSE DefaultPrereleaseVersion,
      has_prerelease     |-> m.group4 # None ]

\* raise ValueError(f"Invalid version format: {version}")
InvalidVersionFormat ==
    [ raised |-> TRUE, major |-> 0, minor |-> 0, patch |-> 0,
      prerelease_type |-> None, prerelease_version |-> 0,
      has_prerelease |-> FALSE ]

parse_prerelease(version) ==
    LET m == re_match(version)
    IN  IF m.matched THEN version_dict(m) ELSE InvalidVersionFormat

----------------------------------------------------------------------------
(* version_managment.VersionManager *)

\* VersionManager.get_current_version
get_current_version(doc) == doc.version

\* truth value of an optional string, as in "if prerelease_type:"
Truthy(x) == x # None /\ x # <<>>

\* a slip: patch is incremented on a prerelease version too
bump_patch_always_increments(v) ==
    IF v.has_prerelease
    THEN [v EXCEPT !.patch = @ + 1, !.prerelease_type = None, !.prerelease_version = 1]
    ELSE [v EXCEPT !.patch = @ + 1]

\* version_type == 'patch'
bump_patch(v) ==
    IF v.has_prerelease
    THEN [v EXCEPT !.prerelease_type = None, !.prerelease_version = 1]
    ELSE [v EXCEPT !.patch = @ + 1]

\* version_type == 'minor'
bump_minor(v) ==
    [v EXCEPT !.minor = @ + 1, !.patch = 0,
              !.prerelease_type = None, !.prerelease_version = 1]

\* a slip: the prerelease is not cleared
bump_major_keeps_prerelease(v) ==
    [v EXCEPT !.major = @ + 1, !.minor = 0, !.patch = 0]

\* version_type == 'major'
bump_major(v) ==
    [v EXCEPT !.major = @ + 1, !.minor = 0, !.patch = 0,
              !.prerelease_type = None, !.prerelease_version = 1]

\* a slip: an alpha bump of a beta or rc version is refused
bump_alpha_never_backwards(v) ==
    IF v.has_prerelease
    THEN IF v.prerelease_type = <<"a">>
         THEN [v EXCEPT !.prerelease_version = @ + 1]
         ELSE v
    ELSE [v EXCEPT !.prerelease_type = <<"a">>, !.prerelease_version = 1]

\* version_type == 'alpha'
bump_alpha(v) ==
    IF v.has_prerelease
    THEN IF v.prerelease_type = <<"a">>
         THEN [v EXCEPT !.prerelease_version = @ + 1]
         ELSE [v EXCEPT !.prerelease_type = <<"a">>, !.prerelease_version = 1]
    ELSE [v EXCEPT !.prerelease_type = <<"a">>, !.prerelease_version = 1]

\* a slip: rc -> beta keeps the rc number
bump_beta_keeps_number(v) ==
    IF v.has_prerelease
    THEN IF v.prerelease_type = <<"a">>
         THEN [v EXCEPT !.prerelease_type = <<"b">>, !.prerelease_version = 1]
         ELSE IF v.prerelease_type = <<"b">>
         THEN [v EXCEPT !.prerelease_version = @ + 1]
         ELSE [v EXCEPT !.prerelease_type = <<"b">>]
    ELSE [v EXCEPT !.prerelease_type = <<"b">>, !.prerelease_version = 1]

\* version_type == 'beta'
bump_beta(v) ==
    IF v.has_prerelease
    THEN IF v.prerelease_type = <<"a">>
         THEN [v EXCEPT !.prerelease_type = <<"b">>, !.prerelease_version = 1]
         ELSE IF v.prerelease_type = <<"b">>
         THEN [v EXCEPT !.prerelease_version = @ + 1]
         ELSE [v EXCEPT !.prerelease_type = <<"b">>, !.prerelease_version = 1]
    ELSE [v EXCEPT !.prerelease_type = <<"b">>, !.prerelease_version = 1]

\* a slip: an rc bump of an rc version starts again at 1
bump_rc_restarts(v) ==
    [v EXCEPT !.prerelease_type = <<"r", "c">>, !.prerelease_version = 1]

\* version_type == 'rc'; a prerelease type that is none of a, b, rc falls
\* through both tests and leaves every local as it was
bump_rc(v) ==
    IF v.has_prerelease
    THEN IF v.prerelease_type \in {<<"a">>, <<"b">>}
         THEN [v EXCEPT !.prerelease_type = <<"r", "c">>, !.prerelease_version = 1]
         ELSE IF v.prerelease_type = <<"r", "c">>
         THEN [v EXCEPT !.prerelease_version = @ + 1]
         ELSE v
    ELSE [v EXCEPT !.prerelease_type = <<"r", "c">>, !.prerelease_version = 1]

\* the version types the if/elif chain of bump_version handles
HandledVersionTypes == {"patch", "minor", "major", "alpha", "beta", "rc"}

\* the if/elif chain on version_type ("Handle version bumping")
bump_locals(v, version_type) ==
    CASE version_type = "patch" -> bump_patch(v)
      [] version_type = "minor" -> bump_minor(v)
      [] version_type = "major" -> bump_major(v)
      [] version_type = "alpha" -> bump_alpha(v)
      [] version_type = "beta"  -> bump_beta(v)
      [] version_type = "rc"    -> bump_rc(v)
      [] OTHER                  -> v

\* a slip: the prerelease tag is set off by a hyphen
new_version_string_dashed(l) ==
    IF Truthy(l.prerelease_type)
    THEN str(l.major) \o <<".">> \o str(l.minor) \o <<".">> \o str(l.patch)
             \o <<"-">> \o l.prerelease_type \o str(l.prerelease_version)
    ELSE str(l.major) \o <<".">> \o str(l.minor) \o <<".">> \o str(l.patch)

\* "Build new version string"
new_version_string(l) ==
    IF Truthy(l.prerelease_type)
    THEN str(l.major) \o <<".">> \o str(l.minor) \o <<".">> \o str(l.patch)
             \o l.prerelease_type \o str(l.prerelease_version)
    ELSE str(l.major) \o <<".">> \o str(l.minor) \o <<".">> \o str(l.patch)

\* what one call of bump_version computes from the manifest document doc:
\* its locals, whether it raised, and the string it returns
bump_version_result(doc, version_type) ==
    LET current_version == get_current_version(doc)
        version_info    == parse_prerelease(current_version)
        raised          == IF version_info.raised THEN "InvalidVersionFormat"
                           ELSE IF version_type \notin HandledVersionTypes
                           THEN "InvalidVersionType"
                           ELSE "no"
    IN  [ version_type    |-> version_type,
          current_version |-> current_version,
          version_info    |-> version_info,
          raised          |-> raised,
          new_version     |-> IF raised = "no"
                              THEN new_version_string(bump_locals(version_info, version_type))
                              ELSE <<>> ]

\* VersionManager._save_config: the in-memory document replaces the file
_save_config(doc) == doc

\* the last bump_version call, if any, was not a prerelease bump that returned
NoStreak == [version_type |-> "", n |-> 0, from |-> InvalidVersionFormat]

\* the calls of one prerelease version_type that returned in a row, the
\* call r the last of them: how many, and the version the first of them
\* parsed
next_streak(r) ==
    IF r.raised # "no" \/ r.version_type \notin {"alpha", "beta", "rc"} THEN NoStreak
    ELSE IF streak.n > 0 /\ streak.version_type = r.version_type
    THEN [streak EXCEPT !.n = @ + 1]
    ELSE [version_type |-> r.version_type, n |-> 1, from |-> r.version_info]

\* VersionManager.bump_version(version_type), as a step
bump_version(version_type) ==
    LET r == bump_version_result(vm_config, version_type)
    IN  /\ call' = r
        /\ bumps' = bumps + 1
        /\ streak' = next_streak(r)
        /\ IF r.raised = "no"
           THEN /\ vm_config' = [vm_config EXCEPT !.version = r.new_version]
                /\ manifest' = _save_config(vm_config')
                /\ manifest_io' = Append(manifest_io, "write version")
           ELSE UNCHANGED <<vm_config, manifest, manifest_io>>

----------------------------------------------------------------------------
(* The manifest versions the version manager is started on *)

MajorStrs == {str(n) : n \in 1..MaxNum} \cup {<<"0", "1">>}

MinorStrs == {str(n) : n \in 2..MaxNum} \cup {<<"9">>, <<>>}

PatchStrs == {str(n) : n \in 0..(MaxNum + 1)} \cup {<<"9">>, <<"0", "3">>}

TagStrs == {<<>>, <<"a">>, <<"b">>, <<"c">>, <<"r", "c">>, <<"r">>, <<"x">>}

NumberStrs == {str(n) : n \in 0..MaxNum} \cup {<<>>, <<"0", "1">>}

TailStrs == {<<>>, <<"\n">>, <<".", "4">>}

InputVersions ==
    { ma \o <<".">> \o mi \o <<".">> \o pa \o tg \o nu \o tl :
        ma \in MajorStrs, mi \in MinorStrs, pa \in PatchStrs,
        tg \in TagStrs, nu \in NumberStrs, tl \in TailStrs }
    \cup { <<>>, <<"1", ".", "2">>, <<"v", "1", ".", "2", ".", "3">>,
           <<"1", ".", "2", ".", "3", "-", "a", "1">> }

\* the values bump_version is called with: the handled ones and the
\* launcher's "prerelease"
VersionTypes == HandledVersionTypes \cup {"prerelease"}

----------------------------------------------------------------------------
(* State shared by the specifications *)

Stages == {"rename", "bump", "build", "deploy", "push", "cleanup"}

NoCall ==
    [ version_type |-> "", current_version |-> <<>>,
      version_info |-> InvalidVersionFormat, raised |-> "not called",
      new_version |-> <<>> ]

\* VersionManager._load_config: the document read from the file
_load_config(file) == file

\* the repository URL when --repository-url is not given (None: falsy)
NoUrl == ""

\* repository URLs: one of a Nexus server, one of another index
NexusUrl == "https://nexus.example.com/repository/pypi-internal/"

OtherUrl == "https://packages.example.com/simple/"

PyPIUrl == "https://upload.pypi.org/legacy/"

TestPyPIUrl == "https://test.pypi.org/legacy/"

\* "nexus" in url.lower()
ContainsNexus(url) == url = NexusUrl

\* 'pypi.org' in url.lower()
ContainsPyPI(url) == url \in {PyPIUrl, TestPyPIUrl}

\* 'test.pypi.org' in url.lower()
ContainsTestPyPI(url) == url = TestPyPIUrl

\* directories: the working directory of the process, a project directory
\* given with --project-dir that is another directory, the directory of the
\* launcher script, the temporary working directory of the older pipeline
Dirs == {"cwd", "proj", "launcher", "tmp"}

Names == {"dist", "build", "egg-info", "setup.py", "c-files", "pyproject.toml"}

Paths == Dirs \X Names

\* a tree with nothing in it but what the manifest variable stands for
EmptyTree == [p \in Paths |-> "absent"]

\* the files and directories of the set ps deleted / given content c
Remove(tree, ps) == [p \in Paths |-> IF p \in ps THEN "absent" ELSE tree[p]]

Put(tree, ps, c) == [p \in Paths |-> IF p \in ps THEN c ELSE tree[p]]

\* one external command line, as issued
Command(cmd, flags, dir) == [cmd |-> cmd, flags |-> flags, cwd |-> dir]

\* no pyproject.toml in the temporary directory
NoManifest ==
    [name |-> "", version |-> <<>>, requires |-> <<>>, build_backend |-> "absent"]

\* the environment variables get_credentials reads; "" is an unset one
EnvNames ==
    {"TWINE_USERNAME", "PYPI_USERNAME", "NEXUS_USERNAME",
     "TWINE_PASSWORD", "PYPI_TOKEN", "NEXUS_PASSWORD"}

EmptyEnviron == [n \in EnvNames |-> ""]

\* the sections of ~/.pypirc that get_credentials looks up
Sections == {"pypi", "nexus", "testpypi"}

\* a section the file does not have; "" is an option the section lacks
NoSection == [present |-> FALSE, repository |-> NoUrl, username |-> "", password |-> ""]

\* no ~/.pypirc, or one without sections
NoPypirc == [s \in Sections |-> NoSection]

\* a namespace with every option at its default (None, False)
NoArgs ==
    [ repository_name |-> "", repository_url |-> NoUrl, username |-> "",
      password |-> "", interactive |-> FALSE, dry_run |-> FALSE ]

\* the user enters nothing at any prompt
NoInput == [username |-> "", password |-> "", proceed |-> "n"]

\* credentials not resolved yet
NoCredentials ==
    [ username |-> "", password |-> "", raised |-> FALSE, asked |-> <<>>,
      calls |-> 0, interactive |-> FALSE ]

----------------------------------------------------------------------------
(* The version manager on its own: a VersionManager constructed on a       *)
(* manifest, then bump_version called up to MaxBumps times.                *)

IdleConfig ==
    [ package_name |-> "pkg", version_type |-> "patch", use_cython |-> FALSE,
      repository_url |-> NexusUrl, dry_run |-> FALSE, project_dir |-> "cwd" ]

InitVM ==
    /\ pipeline = "version"
    /\ pc = "idle"
    /\ config = IdleConfig
    /\ \E v \in InputVersions :
          manifest = [name |-> "pkg", version |-> v, requires |-> <<>>,
                      build_backend |-> "absent"]
    /\ vm_config = _load_config(manifest)
    /\ fs = EmptyTree
    /\ stage = [s \in Stages |-> "idle"]
    /\ log = <<>>
    /\ outcome = "running"
    /\ call = NoCall
    /\ bumps = 0
    /\ setup_file_exist = FALSE
    /\ launcher_dir = "cwd"
    /\ pre_run = [manifest |-> NoManifest, fs |-> EmptyTree]    \* no pipeline run
    /\ streak = NoStreak
    /\ work_manifest = NoManifest
    /\ manifest_io = <<"read">>
    /\ git_status = <<>>
    /\ args = NoArgs
    /\ environ = EmptyEnviron
    /\ pypirc = NoPypirc
    /\ stdin = NoInput
    /\ credentials = NoCredentials

CallBumpVersion ==
    /\ pipeline = "version"
    /\ bumps < MaxBumps
    /\ \E version_type \in VersionTypes : bump_version(version_type)
    /\ UNCHANGED <<pipeline, pc, config, fs, stage, log, outcome,
                   setup_file_exist, launcher_dir>>
    /\ UNCHANGED <<pre_run, work_manifest, args, environ, pypirc, stdin, credentials>>
    /\ UNCHANGED git_status

NextVM == CallBumpVersion

SpecVM == InitVM /\ [][NextVM]_vars

----------------------------------------------------------------------------
(* Build strategies *)

\* a requirement entry is a sequence of tokens ("setuptools>=45" is
\* <<"setuptools", ">=45">>); req.startswith(dep) is the prefix test
startswith(req, dep) ==
    Len(req) >= Len(dep) /\ SubSeq(req, 1, Len(dep)) = dep

\* one pass of "for dep in cython_deps" of build.py over the deps still to do
RECURSIVE add_cython_deps(_, _)
add_cython_deps(requires, deps) ==
    IF deps = <<>> THEN requires
    ELSE LET dep == Head(deps)
             present == \E i \in 1..Len(requires) : startswith(requires[i], dep)
         IN  add_cython_deps(IF present THEN requires ELSE Append(requires, dep),
                             Tail(deps))

\* build.py CythonBuildStrategy._setup_cython_build: the document written back
_setup_cython_build(doc) ==
    [doc EXCEPT !.requires = add_cython_deps(@, << <<"setuptools">>, <<"Cython">> >>),
                !.build_backend = IF @ = "absent" THEN "setuptools.build_meta" ELSE @]

\* utils.save_config(config, path): the document replaces the file
save_config(doc) == doc

\* "for dep in cython_deps" of strategy.py: "dep not in requires" compares
\* dep with the whole entries
RECURSIVE strategy_add_cython_deps(_, _)
strategy_add_cython_deps(requires, deps) ==
    IF deps = <<>> THEN requires
    ELSE LET dep == Head(deps)
             present == \E i \in 1..Len(requires) : requires[i] = dep
         IN  strategy_add_cython_deps(IF present THEN requires
                                      ELSE Append(requires, dep),
                                      Tail(deps))

\* strategy.py CythonBuildStrategy._setup_cython_build: the document
\* toml.dump writes back
strategy_setup_cython_build(doc) ==
    [doc EXCEPT !.requires = strategy_add_cython_deps(
                                 @, << <<"setuptools">>, <<"wheel">>, <<"Cython">> >>),
                !.build_backend = IF @ = "absent" THEN "setuptools.build_meta" ELSE @]

\* BuildStrategy.build_cmd, run with cwd=project_dir
build_cmd(dir, cythonize) ==
    Command("build", {"--wheel"} \cup (IF cythonize THEN {"CYTHONIZE=1"} ELSE {}), dir)

\* what the external build leaves in directory dir: everything when it
\* succeeds, and when it fails either nothing or partial output
build_output(tree, dir, rc, partial, cythonize) ==
    LET dirs  == {<<dir, "dist">>, <<dir, "build">>, <<dir, "egg-info">>}
        cs    == IF cythonize THEN {<<dir, "c-files">>} ELSE {}
    IN  IF rc = 0 THEN Put(Put(tree, dirs, "dir"), cs, "generated")
        ELSE IF partial THEN Put(Put(tree, dirs, "dir"), cs, "generated")
        ELSE tree

----------------------------------------------------------------------------
(* Deploy strategies *)

\* the twine command line NexusDeploy.deploy builds; "raise" without a URL
NexusDeploy_cmd(cfg) ==
    IF cfg.repository_url = NoUrl THEN Command("raise", {}, "cwd")
    ELSE Command("twine upload",
                 {"--repository-url", "--skip-existing"}
                     \cup (IF cfg.dry_run THEN {"--dry-run"} ELSE {}),
                 "cwd")

\* the twine command line PyPIDeploy.deploy builds
PyPIDeploy_cmd(cfg) ==
    Command("twine upload",
            (IF cfg.repository_url # NoUrl THEN {"--repository-url"} ELSE {})
                \cup (IF cfg.dry_run THEN {"--dry-run"} ELSE {}),
            "cwd")

\* __init__.py PackageDeploy._get_deploy_strategy
_get_deploy_strategy(cfg) == "NexusDeploy"

\* deploy.py PackageDeployer._get_deploy_strategy
legacy_get_deploy_strategy(cfg) ==
    IF cfg.repository_url # NoUrl /\ ContainsNexus(cfg.repository_url)
    THEN "NexusDeploy" ELSE "PyPIDeploy"

deploy_cmd(strategy, cfg) ==
    IF strategy = "NexusDeploy" THEN NexusDeploy_cmd(cfg) ELSE PyPIDeploy_cmd(cfg)

----------------------------------------------------------------------------
(* __init__.py PackageDeploy.deploy: the pipeline coordinator *)

SetStage(s, x) == [stage EXCEPT ![s] = x]

\* try: new_version = self.version_manager.bump_version(...)
Coordinator_bump ==
    /\ pipeline = "coordinator" /\ pc = "start"
    /\ bump_version(config.version_type)
    /\ IF call'.raised = "no"
       THEN /\ stage' = SetStage("bump", "ok")
            /\ pc' = "build"
            /\ UNCHANGED outcome
       ELSE \* except Exception: return False
            /\ stage' = SetStage("bump", "failed")
            /\ pc' = "done"
            /\ outcome' = "False"
    /\ UNCHANGED <<pipeline, config, fs, log, setup_file_exist, launcher_dir>>
    /\ UNCHANGED <<pre_run, work_manifest, args, environ, pypirc, stdin, credentials>>
    /\ UNCHANGED git_status

\* a slip: the Standard build rewrites the manifest too
build_io_always(use_cython) == <<"read", "write build-system">>

\* what build does with the project's pyproject.toml before it starts the
\* build process: _setup_cython_build loads it and saves it, the Standard
\* build does not touch it
build_io(use_cython) ==
    IF use_cython THEN <<"read", "write build-system">> ELSE <<>>

\* build_strategy.build up to subprocess.run
Coordinator_build_start ==
    /\ pipeline = "coordinator" /\ pc = "build"
    /\ IF config.use_cython
       THEN /\ manifest' = save_config(_setup_cython_build(manifest))
            \* create_setup_py_for_cython: open('setup.py', 'w')
            /\ fs' = Put(fs, {<<"cwd", "setup.py">>}, "generated")
       ELSE UNCHANGED <<manifest, fs>>
    /\ log' = Append(log, build_cmd(config.project_dir, config.use_cython))
    /\ stage' = SetStage("build", "running")
    /\ pc' = "building"
    /\ UNCHANGED <<pipeline, config, vm_config, outcome, call, bumps,
                   setup_file_exist, launcher_dir>>
    /\ UNCHANGED <<pre_run, streak, work_manifest, args, environ, pypirc, stdin,
                   credentials>>
    /\ manifest_io' = manifest_io \o build_io(config.use_cython)
    /\ UNCHANGED git_status

\* a slip: the value build returned is not tested
after_build_untested(result) ==
    CASE result = "raised" -> "done"
      [] OTHER             -> "deploy"

\* where deploy() goes once build has returned ("True", "False") or raised
after_build(result) ==
    CASE result = "True"  -> "deploy"
      [] result = "False" -> "cleanup"
      [] OTHER            -> "done"

\* what build returns for the exit code rc of the build process
build_result(use_cython, rc) ==
    IF rc = 0 THEN "True"
    ELSE IF use_cython THEN "False"      \* except Exception: return False
    ELSE "raised"                        \* raise ValueError("Build failed...")

\* the build process exits; build returns or raises
Coordinator_build_exit ==
    /\ pipeline = "coordinator" /\ pc = "building"
    /\ \E rc \in {0, 1} : \E partial \in BOOLEAN :
          LET result == build_result(config.use_cython, rc)
          IN  /\ fs' = build_output(fs, config.project_dir, rc, partial, config.use_cython)
              /\ stage' = SetStage("build", IF rc = 0 THEN "ok" ELSE "failed")
              /\ pc' = after_build(result)
              /\ outcome' = IF after_build(result) = "done" THEN "False" ELSE outcome
    /\ UNCHANGED <<pipeline, config, vm_config, manifest, log, call, bumps,
                   setup_file_exist, launcher_dir>>
    /\ UNCHANGED <<pre_run, streak, work_manifest, args, environ, pypirc, stdin,
                   credentials>>
    /\ UNCHANGED <<manifest_io, git_status>>

\* where deploy() goes once the deploy strategy has returned
after_deploy(ok) == IF ok THEN "push" ELSE "cleanup"

\* deploy_strategy.deploy up to subprocess.run
Coordinator_deploy_start ==
    /\ pipeline = "coordinator" /\ pc = "deploy"
    /\ LET cmd == deploy_cmd(_get_deploy_strategy(config), config)
       IN  IF cmd.cmd = "raise"
           THEN /\ stage' = SetStage("deploy", "failed")
                /\ pc' = after_deploy(FALSE)
                /\ UNCHANGED log
           ELSE /\ stage' = SetStage("deploy", "running")
                /\ pc' = "uploading"
                /\ log' = Append(log, cmd)
    /\ UNCHANGED <<pipeline, config, vm_config, manifest, fs, outcome, call, bumps,
                   setup_file_exist, launcher_dir>>
    /\ UNCHANGED <<pre_run, streak, work_manifest, args, environ, pypirc, stdin,
                   credentials>>
    /\ UNCHANGED <<manifest_io, git_status>>

\* the upload client exits; deploy returns result.returncode == 0
Coordinator_upload_exit ==
    /\ pipeline = "coordinator" /\ pc = "uploading"
    /\ \E rc \in {0, 1} :
          /\ stage' = SetStage("deploy", IF rc = 0 THEN "ok" ELSE "failed")
          /\ pc' = after_deploy(rc = 0)
    /\ UNCHANGED <<pipeline, config, vm_config, manifest, fs, log, outcome, call,
                   bumps, setup_file_exist, launcher_dir>>
    /\ UNCHANGED <<pre_run, streak, work_manifest, args, environ, pypirc, stdin,
                   credentials>>
    /\ UNCHANGED <<manifest_io, git_status>>

\* the commands of git_push, in order
GitCommands ==
    << Command("git pull", {}, "cwd"),
       Command("git push", {"--tags", "--force"}, "cwd"),
       Command("git push", {}, "cwd") >>

\* a slip: a command that fails does not end the try block
git_issued_all(rc) == Len(rc)

\* how many of its commands git_push issues when the i-th of them would
\* exit with status rc[i]: check_output raises at the first non-zero
\* status, which ends the try block
git_issued(rc) ==
    IF \E i \in 1..Len(rc) : rc[i] # 0
    THEN CHOOSE i \in 1..Len(rc) : rc[i] # 0 /\ \A j \in 1..(i - 1) : rc[j] = 0
    ELSE Len(rc)

\* PackageDeploy.git_push: the exception of a failed command is caught
\* inside git_push, which then returns normally
git_push ==
    /\ pipeline = "coordinator" /\ pc = "push"
    /\ \E rc \in [1..Len(GitCommands) -> {0, 1}] :
          LET issued == git_issued(rc)
          IN  /\ log' = log \o SubSeq(GitCommands, 1, issued)
              /\ git_status' = [i \in 1..issued |-> rc[i]]
              /\ stage' = SetStage("push", IF \A i \in 1..issued : rc[i] = 0
                                           THEN "ok" ELSE "failed")
    /\ pc' = "cleanup"
    /\ UNCHANGED <<pipeline, config, vm_config, manifest, fs, outcome, call, bumps,
                   setup_file_exist, launcher_dir>>
    /\ UNCHANGED <<pre_run, streak, work_manifest, args, environ, pypirc, stdin,
                   credentials>>
    /\ UNCHANGED manifest_io

\* PackageDeploy.cleanup_build: what it deletes. The directories are
\* relative to the working directory, the .c files are looked up under the
\* launcher's directory
cleanup_targets(keep_setup_py, launcher) ==
    {<<"cwd", "dist">>, <<"cwd", "build">>, <<"cwd", "egg-info">>}
        \cup (IF keep_setup_py THEN {} ELSE {<<"cwd", "setup.py">>})
        \cup {<<launcher, "c-files">>}

\* self.cleanup_build(); logger.info('Deploy Complete'); deploy returns None
cleanup_build ==
    /\ pipeline = "coordinator" /\ pc = "cleanup"
    /\ fs' = Remove(fs, cleanup_targets(setup_file_exist, launcher_dir))
    /\ stage' = SetStage("cleanup", "ok")
    /\ outcome' = "None"
    /\ pc' = "done"
    /\ UNCHANGED <<pipeline, config, vm_config, manifest, log, call, bumps,
                   setup_file_exist, launcher_dir>>
    /\ UNCHANGED <<pre_run, streak, work_manifest, args, environ, pypirc, stdin,
                   credentials>>
    /\ UNCHANGED <<manifest_io, git_status>>

----------------------------------------------------------------------------
(* deploy.py PackageDeployer.deploy and PackageDeploy.deploy: the older    *)
(* pipeline, which builds in a temporary copy of the project               *)

\* PackageDeployer._update_package_name
_update_package_name ==
    /\ pipeline = "legacy" /\ pc = "start"
    /\ IF config.package_name # vm_config.name
       THEN /\ vm_config' = [vm_config EXCEPT !.name = config.package_name]
            /\ manifest' = _save_config(vm_config')
            /\ manifest_io' = Append(manifest_io, "write name")
            /\ stage' = SetStage("rename", "ok")
       ELSE UNCHANGED <<vm_config, manifest, manifest_io, stage>>
    /\ pc' = "bump"
    /\ UNCHANGED <<pipeline, config, fs, log, outcome, call, bumps,
                   setup_file_exist, launcher_dir>>
    /\ UNCHANGED <<pre_run, streak, work_manifest, args, environ, pypirc, stdin,
                   credentials>>
    /\ UNCHANGED git_status

\* new_version = self.version_manager.bump_version(config.version_type)
Legacy_bump ==
    /\ pipeline = "legacy" /\ pc = "bump"
    /\ bump_version(config.version_type)
    /\ IF call'.raised = "no"
       THEN /\ stage' = SetStage("bump", "ok")
            /\ pc' = "copy"
       ELSE \* except Exception: return False
            /\ stage' = SetStage("bump", "failed")
            /\ pc' = "exit"
    /\ UNCHANGED <<pipeline, config, fs, log, outcome, setup_file_exist, launcher_dir>>
    /\ UNCHANGED <<pre_run, work_manifest, args, environ, pypirc, stdin, credentials>>
    /\ UNCHANGED git_status

\* with tempfile.TemporaryDirectory(): self._copy_project_files(work_dir)
_copy_project_files ==
    /\ pipeline = "legacy" /\ pc = "copy"
    /\ fs' = [p \in Paths |->
                IF p = <<"tmp", "pyproject.toml">> THEN "user"
                ELSE IF p = <<"tmp", "setup.py">>
                THEN fs[<<config.project_dir, "setup.py">>]
                ELSE fs[p]]
    /\ work_manifest' = manifest
    /\ pc' = "build"
    /\ UNCHANGED <<pipeline, config, vm_config, manifest, stage, log, outcome, call,
                   bumps, setup_file_exist, launcher_dir>>
    /\ UNCHANGED <<pre_run, streak, args, environ, pypirc, stdin, credentials>>
    /\ manifest_io' = Append(manifest_io, "copy")
    /\ UNCHANGED git_status

\* strategy.py build up to subprocess.run; the Cython variant rewrites the
\* manifest copy in the working directory first
Legacy_build_start ==
    /\ pipeline = "legacy" /\ pc = "build"
    /\ fs' = IF config.use_cython
             THEN Put(fs, {<<"tmp", "pyproject.toml">>}, "generated")
             ELSE fs
    /\ work_manifest' = IF config.use_cython
                        THEN strategy_setup_cython_build(work_manifest)
                        ELSE work_manifest
    /\ log' = Append(log, Command("build",
                                  IF config.use_cython THEN {"CYTHONIZE=1"} ELSE {},
                                  "tmp"))
    /\ stage' = SetStage("build", "running")
    /\ pc' = "building"
    /\ UNCHANGED <<pipeline, config, vm_config, manifest, outcome, call, bumps,
                   setup_file_exist, launcher_dir>>
    /\ UNCHANGED <<pre_run, streak, args, environ, pypirc, stdin, credentials>>
    /\ UNCHANGED <<manifest_io, git_status>>

\* if not build_strategy.build(config, work_dir): return False
legacy_after_build(ok) == IF ok THEN "deploy" ELSE "exit"

\* the build process exits; both strategy.py variants return rc == 0
Legacy_build_exit ==
    /\ pipeline = "legacy" /\ pc = "building"
    /\ \E rc \in {0, 1} : \E partial \in BOOLEAN :
          /\ fs' = build_output(fs, "tmp", rc, partial, config.use_cython)
          /\ stage' = SetStage("build", IF rc = 0 THEN "ok" ELSE "failed")
          /\ pc' = legacy_after_build(rc = 0)
    /\ UNCHANGED <<pipeline, config, vm_config, manifest, log, outcome, call, bumps,
                   setup_file_exist, launcher_dir>>
    /\ UNCHANGED <<pre_run, streak, work_manifest, args, environ, pypirc, stdin,
                   credentials>>
    /\ UNCHANGED <<manifest_io, git_status>>

\* return deploy_strategy.deploy(config, dist_dir), up to subprocess.run
Legacy_deploy_start ==
    /\ pipeline = "legacy" /\ pc = "deploy"
    /\ LET cmd == deploy_cmd(legacy_get_deploy_strategy(config), config)
       IN  IF cmd.cmd = "raise"
           THEN /\ stage' = SetStage("deploy", "failed")
                /\ pc' = "exit"
                /\ UNCHANGED log
           ELSE /\ stage' = SetStage("deploy", "running")
                /\ pc' = "uploading"
                /\ log' = Append(log, cmd)
    /\ UNCHANGED <<pipeline, config, vm_config, manifest, fs, outcome, call, bumps,
                   setup_file_exist, launcher_dir>>
    /\ UNCHANGED <<pre_run, streak, work_manifest, args, environ, pypirc, stdin,
                   credentials>>
    /\ UNCHANGED <<manifest_io, git_status>>

\* the upload client exits
Legacy_upload_exit ==
    /\ pipeline = "legacy" /\ pc = "uploading"
    /\ \E rc \in {0, 1} :
          stage' = SetStage("deploy", IF rc = 0 THEN "ok" ELSE "failed")
    /\ pc' = "exit"
    /\ UNCHANGED <<pipeline, config, vm_config, manifest, fs, log, outcome, call,
                   bumps, setup_file_exist, launcher_dir>>
    /\ UNCHANGED <<pre_run, streak, work_manifest, args, environ, pypirc, stdin,
                   credentials>>
    /\ UNCHANGED <<manifest_io, git_status>>

\* sys.exit(0) when deployer.deploy returned True, sys.exit(1) otherwise
exit_status(result) == IF result THEN "exit 0" ELSE "exit 1"

\* PackageDeployer.deploy returns: the temporary directory, if it was
\* created, is deleted on leaving the with block; PackageDeploy.deploy exits
Legacy_exit ==
    /\ pipeline = "legacy" /\ pc = "exit"
    /\ IF stage["bump"] = "ok"
       THEN /\ fs' = Remove(fs, {"tmp"} \X Names)
            /\ work_manifest' = NoManifest
            /\ stage' = SetStage("cleanup", "ok")
       ELSE UNCHANGED <<fs, work_manifest, stage>>
    /\ outcome' = exit_status(stage["deploy"] = "ok")
    /\ pc' = "done"
    /\ UNCHANGED <<pipeline, config, vm_config, manifest, log, call, bumps,
                   setup_file_exist, launcher_dir>>
    /\ UNCHANGED <<pre_run, streak, args, environ, pypirc, stdin, credentials>>
    /\ UNCHANGED <<manifest_io, git_status>>

----------------------------------------------------------------------------
(* The pipelines' runs *)

\* --version-type choices of the two launchers
version_type_choices(entry) ==
    IF entry = "coordinator" THEN {"patch", "minor", "major", "prerelease"}
    ELSE {"patch", "minor", "major"}

\* manifest versions the pipelines are started on, one of them unparseable
PipelineVersions ==
    { <<"1", ".", "2", ".", "3">>,
      <<"1", ".", "2", ".", "3", "a", "1">>,
      <<"1", ".", "2">> }

\* build-system.requires lists the manifest is started with
ManifestRequires ==
    { << <<"setuptools", ">=45">>, <<"wheel">> >>,
      << <<"Cython">>, <<"setuptools">> >>,
      << >> }

Init ==
    /\ pipeline \in {"coordinator", "legacy"}
    /\ pc = "start"
    /\ \E v \in PipelineVersions, requires \in ManifestRequires,
          backend \in {"absent", "hatchling.build"} :
          manifest = [name |-> "pkg", version |-> v, requires |-> requires,
                      build_backend |-> backend]
    /\ vm_config = _load_config(manifest)
    /\ \E vt \in version_type_choices(pipeline), cy \in BOOLEAN, dry \in BOOLEAN,
          dir \in {"cwd", "proj"} :
          \E url \in IF pipeline = "coordinator" THEN {NexusUrl, OtherUrl}
                     ELSE {NoUrl, NexusUrl, OtherUrl} :
          \E name \in IF pipeline = "coordinator" THEN {manifest.name}
                      ELSE {manifest.name, "renamed-pkg"} :
             config = [ package_name |-> name, version_type |-> vt, use_cython |-> cy,
                        repository_url |-> url, dry_run |-> dry, project_dir |-> dir ]
    /\ \E setup \in {"absent", "user"}, stale \in {"absent", "dir"} :
          fs = [p \in Paths |->
                  IF p = <<config.project_dir, "setup.py">> THEN setup
                  ELSE IF p = <<"cwd", "dist">> THEN stale
                  ELSE "absent"]
    /\ setup_file_exist = (fs[<<config.project_dir, "setup.py">>] # "absent")
    /\ launcher_dir \in IF pipeline = "coordinator" THEN {"cwd", "launcher"} ELSE {"launcher"}
    /\ stage = [s \in Stages |-> "idle"]
    /\ log = <<>>
    /\ outcome = "running"
    /\ call = NoCall
    /\ bumps = 0
    /\ pre_run = [manifest |-> manifest, fs |-> fs]
    /\ streak = NoStreak
    /\ work_manifest = NoManifest
    /\ manifest_io = <<"read">>
    /\ git_status = <<>>
    /\ args = NoArgs
    /\ environ = EmptyEnviron
    /\ pypirc = NoPypirc
    /\ stdin = NoInput
    /\ credentials = NoCredentials

Next ==
    \/ Coordinator_bump
    \/ Coordinator_build_start
    \/ Coordinator_build_exit
    \/ Coordinator_deploy_start
    \/ Coordinator_upload_exit
    \/ git_push
    \/ cleanup_build
    \/ _update_package_name
    \/ Legacy_bump
    \/ _copy_project_files
    \/ Legacy_build_start
    \/ Legacy_build_exit
    \/ Legacy_deploy_start
    \/ Legacy_upload_exit
    \/ Legacy_exit

Spec == Init /\ [][Next]_vars

----------------------------------------------------------------------------
(* The launchers: parse_args and PackageDeploy.__init__ of __init__.py,    *)
(* PackageDeploy.__init__ of deploy.py, and utils.get_credentials.         *)
(* Strings that are None or empty are both "": the code only tests them    *)
(* for truth.                                                              *)

\* Python's "a or b" on strings
Or(a, b) == IF a # "" THEN a ELSE b

force_interactive_flag_ignored(a) == FALSE

\* get_credentials: "if force_interactive and not args.dry_run" followed by
\* "if not username and not password", the test of the forced prompt
force_interactive(a) ==
    a.interactive /\ ~a.dry_run /\ a.username = "" /\ a.password = ""

needs_prompt_in_dry_run(a, u, p) ==
    a.repository_url # NoUrl /\ (u = "" \/ p = "")

\* get_credentials, step 3: "if args.repository_url and not args.dry_run and
\* (not username or not password)", the test of the prompt for what is missing
needs_prompt(a, u, p) ==
    a.repository_url # NoUrl /\ ~a.dry_run /\ (u = "" \/ p = "")

\* utils.get_credentials(args): the tuple it returns, whether it raised
\* ValueError, the prompts it issued in order, the number of calls the
\* self-call made of it, and args.interactive as it leaves it
RECURSIVE get_credentials(_, _, _, _)
get_credentials(a, env, file, inp) ==
    LET url          == a.repository_url
        is_nexus     == url # NoUrl /\ ContainsNexus(url)
        is_pypi      == url = NoUrl \/ ContainsPyPI(url)
        is_test_pypi == url # NoUrl /\ ContainsTestPyPI(url)
        Result(u, p, raised, asked) ==
            [ username |-> u, password |-> p, raised |-> raised, asked |-> asked,
              calls |-> 1, interactive |-> a.interactive ]
        \* the forced interactive branch
        forced   == force_interactive(a)
        typed    == IF is_pypi \/ is_test_pypi THEN Or(inp.username, "__token__")
                    ELSE IF is_nexus THEN Or(inp.username, "admin")
                    ELSE inp.username
        \* 1. environment variables
        env_user == IF is_pypi \/ is_test_pypi
                    THEN Or(env["TWINE_USERNAME"], env["PYPI_USERNAME"])
                    ELSE Or(env["TWINE_USERNAME"], env["NEXUS_USERNAME"])
        env_pass == IF is_pypi \/ is_test_pypi
                    THEN Or(env["TWINE_PASSWORD"], env["PYPI_TOKEN"])
                    ELSE Or(env["TWINE_PASSWORD"], env["NEXUS_PASSWORD"])
        u1       == IF a.username = "" THEN env_user ELSE a.username
        p1       == IF a.password = "" THEN env_pass ELSE a.password
        \* 2. the .pypirc file
        section_name == IF url # NoUrl /\ ContainsNexus(url) THEN "nexus"
                        ELSE IF url # NoUrl /\ ContainsTestPyPI(url) THEN "testpypi"
                        ELSE "pypi"
        read     == (u1 = "" \/ p1 = "") /\ file[section_name].present
        u2       == IF read /\ u1 = "" THEN file[section_name].username ELSE u1
        p2       == IF read /\ p1 = "" THEN file[section_name].password ELSE p1
        \* 3. interactive input for what is still missing
        ask      == needs_prompt(a, u2, p2)
        u3       == IF ask /\ u2 = "" THEN typed ELSE u2
        p3       == IF ask /\ p2 = "" THEN inp.password ELSE p2
        asked3   == (IF ask /\ u2 = "" THEN <<"Username">> ELSE <<>>)
                        \o (IF ask /\ p2 = "" THEN <<"Password">> ELSE <<>>)
        raise3   == ask /\ is_nexus /\ p2 = "" /\ inp.password = ""
        \* 4. no credentials at all for PyPI
        nothing  == (is_pypi \/ is_test_pypi) /\ ~a.dry_run /\ u3 = "" /\ p3 = ""
    IN  IF forced
        THEN Result(typed, inp.password, inp.password = "", <<"Username", "Password">>)
        ELSE IF raise3 THEN Result(u3, p3, TRUE, asked3)
        ELSE IF nothing /\ ~a.interactive
        THEN IF inp.proceed \in {"y", "yes"}
             THEN LET r == get_credentials([a EXCEPT !.interactive = TRUE],
                                           env, file, inp)
                  IN  [r EXCEPT !.asked = asked3 \o <<"Proceed">> \o @,
                                !.calls = @ + 1]
             ELSE Result(u3, p3, TRUE, asked3 \o <<"Proceed">>)
        ELSE Result(u3, p3, FALSE, asked3)

\* utils.get_pypirc_info(): the sections of ~/.pypirc as "repositories"
get_pypirc_info(file) ==
    [ repositories |-> [name \in {n \in Sections : file[n].present} |-> file[name]] ]

\* parse_args: parser.error unless a repository URL or name is given
parse_args ==
    /\ pipeline = "coordinator" /\ pc = "launch"
    /\ IF args.repository_url = NoUrl /\ args.repository_name = ""
       THEN pc' = "rejected" /\ outcome' = "usage error"
       ELSE pc' = "init" /\ UNCHANGED outcome
    /\ UNCHANGED <<pipeline, config, vm_config, manifest, fs, stage, log, call, bumps,
                   setup_file_exist, launcher_dir>>
    /\ UNCHANGED <<pre_run, streak, work_manifest, args, environ, pypirc, stdin,
                   credentials>>
    /\ UNCHANGED <<manifest_io, git_status>>

\* the configuration the launcher hands to the pipeline
launch_config(url) ==
    [config EXCEPT !.repository_url = url, !.dry_run = args.dry_run]

\* __init__.py PackageDeploy.__init__ after parse_args: the repository and
\* the credentials are resolved and the DeployConfig is built
PackageDeploy_init ==
    /\ pipeline = "coordinator" /\ pc = "init"
    /\ LET repos == get_pypirc_info(pypirc).repositories
       IN  IF args.repository_name # "" /\ args.repository_name \in DOMAIN repos
           THEN LET repository_info == repos[args.repository_name]
                IN  /\ credentials' = [NoCredentials EXCEPT
                                          !.username = repository_info.username,
                                          !.password = repository_info.password]
                    /\ config' = launch_config(repository_info.repository)
                    /\ pc' = "start"
                    /\ UNCHANGED <<outcome, args>>
           ELSE IF args.repository_name # ""
           THEN \* raise ValueError("Repository name is provided but not found")
                /\ pc' = "rejected"
                /\ outcome' = "name not found"
                /\ UNCHANGED <<credentials, config, args>>
           ELSE LET r == get_credentials(args, environ, pypirc, stdin)
                IN  /\ credentials' = r
                    /\ args' = [args EXCEPT !.interactive = r.interactive]
                    /\ IF r.raised
                       THEN /\ pc' = "rejected"
                            /\ outcome' = "credentials required"
                            /\ UNCHANGED config
                       ELSE /\ pc' = "start"
                            /\ config' = launch_config(args.repository_url)
                            /\ UNCHANGED outcome
    /\ UNCHANGED <<pipeline, vm_config, manifest, fs, stage, log, call, bumps,
                   setup_file_exist, launcher_dir>>
    /\ UNCHANGED <<pre_run, streak, work_manifest, environ, pypirc, stdin>>
    /\ manifest_io' = IF pc' = "start" THEN Append(manifest_io, "read") ELSE manifest_io
    /\ UNCHANGED git_status

\* deploy.py PackageDeploy.__init__: --repository-url is optional and
\* there is no --repository-name
Legacy_PackageDeploy_init ==
    /\ pipeline = "legacy" /\ pc = "launch"
    /\ LET r == get_credentials(args, environ, pypirc, stdin)
       IN  /\ credentials' = r
           /\ args' = [args EXCEPT !.interactive = r.interactive]
           /\ IF r.raised
              THEN /\ pc' = "rejected"
                   /\ outcome' = "credentials required"
                   /\ UNCHANGED config
              ELSE /\ pc' = "start"
                   /\ config' = launch_config(args.repository_url)
                   /\ UNCHANGED outcome
    /\ UNCHANGED <<pipeline, vm_config, manifest, fs, stage, log, call, bumps,
                   setup_file_exist, launcher_dir>>
    /\ UNCHANGED <<pre_run, streak, work_manifest, environ, pypirc, stdin>>
    /\ UNCHANGED <<manifest_io, git_status>>

\* the environments the launchers are run in
Environs ==
    { EmptyEnviron,
      [EmptyEnviron EXCEPT !["TWINE_USERNAME"] = "env-twine-user",
                           !["TWINE_PASSWORD"] = "env-twine-pass"],
      [EmptyEnviron EXCEPT !["NEXUS_USERNAME"] = "env-nexus-user",
                           !["NEXUS_PASSWORD"] = "env-nexus-pass",
                           !["PYPI_USERNAME"] = "__token__",
                           !["PYPI_TOKEN"] = "env-pypi-token"],
      [EmptyEnviron EXCEPT !["TWINE_USERNAME"] = "env-twine-user"] }

\* the ~/.pypirc files the launchers are run with
Pypircs ==
    { NoPypirc,
      [NoPypirc EXCEPT
          !["nexus"] = [present |-> TRUE, repository |-> NexusUrl,
                        username |-> "file-nexus-user", password |-> "file-nexus-pass"],
          !["pypi"]  = [present |-> TRUE, repository |-> PyPIUrl,
                        username |-> "__token__", password |-> "file-pypi-token"]],
      [NoPypirc EXCEPT
          !["nexus"] = [present |-> TRUE, repository |-> NexusUrl,
                        username |-> "file-nexus-user", password |-> ""]] }

\* what the user types at the prompts
Inputs ==
    { NoInput,
      [username |-> "typed-user", password |-> "typed-pass", proceed |-> "y"],
      [username |-> "", password |-> "typed-pass", proceed |-> "yes"] }

\* the command lines: --repository-name exists in __init__.py only
ArgsOf(entry) ==
    [ repository_name : IF entry = "coordinator" THEN {"", "nexus", "unknown"} ELSE {""},
      repository_url  : {NoUrl, NexusUrl, OtherUrl, PyPIUrl, TestPyPIUrl},
      username        : {"", "arg-user"},
      password        : {"", "arg-pass"},
      interactive     : BOOLEAN,
      dry_run         : BOOLEAN ]

InitLaunch ==
    /\ pipeline \in {"coordinator", "legacy"}
    /\ pc = "launch"
    /\ args \in ArgsOf(pipeline)
    /\ environ \in Environs
    /\ pypirc \in Pypircs
    /\ stdin \in Inputs
    /\ credentials = NoCredentials
    /\ config = IdleConfig
    /\ manifest = [name |-> "pkg", version |-> <<"1", ".", "2", ".", "3">>,
                   requires |-> <<>>, build_backend |-> "absent"]
    /\ vm_config = _load_config(manifest)
    /\ fs = EmptyTree
    /\ stage = [s \in Stages |-> "idle"]
    /\ log = <<>>
    /\ outcome = "running"
    /\ call = NoCall
    /\ bumps = 0
    /\ setup_file_exist = FALSE
    /\ launcher_dir = "launcher"
    /\ pre_run = [manifest |-> manifest, fs |-> fs]
    /\ streak = NoStreak
    /\ work_manifest = NoManifest
    /\ manifest_io = <<>>
    /\ git_status = <<>>

NextLaunch ==
    \/ parse_args
    \/ PackageDeploy_init
    \/ Legacy_PackageDeploy_init

SpecLaunch == InitLaunch /\ [][NextLaunch]_vars

----------------------------------------------------------------------------
(* The specification's version grammar, transition table and rendering,    *)
(* stated on their own for the claims to compare the code with.            *)

IsDigits(s) == s # <<>> /\ \A i \in 1..Len(s) : IsDigit(s[i])

\* s is MAJOR.MINOR.PATCH: three digit sequences separated by dots
IsMajorMinorPatch(s) ==
    \E i, j \in 1..Len(s) :
        /\ i < j
        /\ s[i] = "." /\ s[j] = "."
        /\ IsDigits(SubSeq(s, 1, i - 1))
        /\ IsDigits(SubSeq(s, i + 1, j - 1))
        /\ IsDigits(SubSeq(s, j + 1, Len(s)))

SpecTags == {<<"a">>, <<"b">>, <<"r", "c">>}

\* s is MAJOR.MINOR.PATCH[(a|b|rc)[N]]
GrammarAccepts(s) ==
    \/ IsMajorMinorPatch(s)
    \/ \E k \in 1..Len(s) : \E t \in SpecTags :
          /\ IsMajorMinorPatch(SubSeq(s, 1, k))
          /\ k + Len(t) <= Len(s)
          /\ SubSeq(s, k + 1, k + Len(t)) = t
          /\ \A m \in (k + Len(t) + 1)..Len(s) : IsDigit(s[m])

\* a digit sequence that is the decimal numeral of its value
NoLeadingZero(ds) == ds = <<"0">> \/ (ds # <<>> /\ ds[1] # "0")

\* s is MAJOR.MINOR.PATCH with every component written without leading zeros
IsCanonicalMajorMinorPatch(s) ==
    \E i, j \in 1..Len(s) :
        /\ i < j
        /\ s[i] = "." /\ s[j] = "."
        /\ IsDigits(SubSeq(s, 1, i - 1)) /\ NoLeadingZero(SubSeq(s, 1, i - 1))
        /\ IsDigits(SubSeq(s, i + 1, j - 1)) /\ NoLeadingZero(SubSeq(s, i + 1, j - 1))
        /\ IsDigits(SubSeq(s, j + 1, Len(s))) /\ NoLeadingZero(SubSeq(s, j + 1, Len(s)))

\* ParsedVersion of the data model, from the dict the parser returned
ParsedVersion(v) ==
    [ major  |-> v.major, minor |-> v.minor, patch |-> v.patch,
      kind   |-> CASE v.prerelease_type = <<"a">> -> "alpha"
                   [] v.prerelease_type = <<"b">> -> "beta"
                   [] v.prerelease_type = <<"r", "c">> -> "rc"
                   [] v.prerelease_type = None -> "none"
                   [] OTHER -> "other",
      number |-> v.prerelease_version ]

\* the prerelease kinds of the data model
SpecKinds == {"alpha", "beta", "rc"}

\* the transition table of the version state machine
TableTransition(p, bump) ==
    CASE bump = "patch" /\ p.kind # "none" -> [p EXCEPT !.kind = "none"]
      [] bump = "patch" /\ p.kind = "none" -> [p EXCEPT !.patch = @ + 1]
      [] bump = "minor" -> [p EXCEPT !.minor = @ + 1, !.patch = 0, !.kind = "none"]
      [] bump = "major" ->
             [p EXCEPT !.major = @ + 1, !.minor = 0, !.patch = 0, !.kind = "none"]
      [] bump \in {"alpha", "beta", "rc"} /\ p.kind = bump ->
             [p EXCEPT !.number = @ + 1]
      [] bump \in {"alpha", "beta", "rc"} /\ p.kind # bump ->
             [p EXCEPT !.kind = bump, !.number = 1]

\* the canonical rendering rule
CanonicalRender(p) ==
    LET base == str(p.major) \o <<".">> \o str(p.minor) \o <<".">> \o str(p.patch)
    IN  CASE p.kind = "none"  -> base
          [] p.kind = "alpha" -> base \o <<"a">> \o str(p.number)
          [] p.kind = "beta"  -> base \o <<"b">> \o str(p.number)
          [] p.kind = "rc"    -> base \o <<"r", "c">> \o str(p.number)

\* bump_version has been called and returned a version
Returned == call.raised = "no"

\* bump_version has been called (and returned or raised)
Called == call.raised # "not called"

V123 == <<"1", ".", "2", ".", "3">>

----------------------------------------------------------------------------
C6_MajorResets ==
    (Returned /\ call.version_type = "major") =>
        LET n == parse_prerelease(call.new_version)
        IN  /\ ~n.raised
            /\ n.major = call.version_info.major + 1
            /\ n.minor = 0
            /\ n.patch = 0
            /\ ~n.has_prerelease
            /\ call.new_version = str(call.version_info.major + 1) \o <<".", "0", ".", "0">>
            /\ manifest.version = call.new_version

\* a prerelease version with non-zero minor and patch has been bumped major
C6_Witness ==
    /\ Returned
    /\ call.version_type = "major"
    /\ call.version_info.has_prerelease
    /\ call.version_info.minor > 0 /\ call.version_info.patch > 0
    /\ manifest.version = call.new_version

(* C7: bump_version(patch) on a prerelease version removes the prerelease  *)
(* and leaves major, minor, patch unchanged; on a release version it adds  *)
(* exactly 1 to patch and leaves major and minor unchanged.                *)
C7_PatchBump ==
    (Returned /\ call.version_type = "patch") =>
        LET v == call.version_info
            n == parse_prerelease(call.new_version)
        IN  /\ ~n.raised
            /\ ~n.has_prerelease
            /\ n.major = v.major /\ n.minor = v.minor
            /\ n.patch = IF v.has_prerelease THEN v.patch ELSE v.patch + 1
            /\ manifest.version = call.new_version

\* both cases of the patch bump: here the prerelease one
C7_Witness ==
    /\ Returned
    /\ call.version_type = "patch"
    /\ call.version_info.has_prerelease
    /\ call.version_info.patch > 0
    /\ parse_prerelease(manifest.version).patch = call.version_info.patch
    /\ ~parse_prerelease(manifest.version).has_prerelease

(* C8: parse_prerelease fails with the invalid-version-format error for    *)
(* every input that is not three dot-separated digit sequences followed by *)
(* an optional tag that is exactly a, b or rc (with optional digits).      *)
C8_RejectsOutsideGrammar ==
    (Called /\ ~GrammarAccepts(call.current_version)) =>
        (call.version_info.raised /\ call.raised = "InvalidVersionFormat")

(* C9: for every string s that is MAJOR.MINOR.PATCH, each component any    *)
(* digit sequence, rendering the parse of s gives back exactly s.          *)
C9_RoundTrip ==
    (Called /\ IsMajorMinorPatch(call.current_version)) =>
        /\ ~call.version_info.raised
        /\ new_version_string(call.version_info) = call.current_version

(* C9 as amended: the round trip holds for every MAJOR.MINOR.PATCH string  *)
(* whose components are written without leading zeros.                     *)
C9_RoundTripCanonical ==
    (Called /\ IsCanonicalMajorMinorPatch(call.current_version)) =>
        /\ ~call.version_info.raised
        /\ ~call.version_info.has_prerelease
        /\ new_version_string(call.version_info) = call.current_version

\* a canonical release string with a two-digit component has been parsed
C9_Witness ==
    /\ Called
    /\ call.current_version = <<"2", ".", "1", "0", ".", "0">>
    /\ new_version_string(call.version_info) = call.current_version

\* the digits that follow the prerelease tag of an accepted version string:
\* its trailing digits, a final newline set aside
RECURSIVE TrailingDigits(_)
TrailingDigits(s) ==
    IF s # <<>> /\ IsDigit(s[Len(s)])
    THEN TrailingDigits(SubSeq(s, 1, Len(s) - 1)) \o <<s[Len(s)]>>
    ELSE <<>>

TagDigits(s) ==
    IF s # <<>> /\ s[Len(s)] = "\n"
    THEN TrailingDigits(SubSeq(s, 1, Len(s) - 1))
    ELSE TrailingDigits(s)

AllZeros(ds) == ds # <<>> /\ \A i \in 1..Len(ds) : ds[i] = "0"

(* C10: whenever parse_prerelease returns a version with a prerelease      *)
(* kind, its prerelease number is at least 1, for every accepted input and *)
(* every version reached by bumps.                                         *)
C10_NumberPositive ==
    /\ (Called /\ ParsedVersion(call.version_info).kind \in SpecKinds) =>
           call.version_info.prerelease_version >= 1
    /\ LET m == parse_prerelease(manifest.version)
       IN  (Called /\ ~m.raised /\ ParsedVersion(m).kind \in SpecKinds) =>
               m.prerelease_version >= 1

(* C10 as amended: the prerelease number is 1 when no digits follow the    *)
(* tag and otherwise the value of those digits; it is at least 1 unless    *)
(* those digits are all zeros, in which case it is 0.                      *)
C10_NumberFromDigits ==
    /\ (Called /\ call.version_info.has_prerelease) =>
           LET ds == TagDigits(call.current_version)
               n  == call.version_info.prerelease_version
           IN  /\ ds = <<>> => n = 1
               /\ ds # <<>> => n = int(ds)
               /\ AllZeros(ds) => n = 0
               /\ ~AllZeros(ds) => n >= 1
    /\ LET m == parse_prerelease(manifest.version)
       IN  (Called /\ ~m.raised /\ m.has_prerelease) =>
               /\ TagDigits(manifest.version) = <<>> => m.prerelease_version = 1
               /\ ~AllZeros(TagDigits(manifest.version)) => m.prerelease_version >= 1

\* a tag with no digits after it has been parsed, and the bump kept the kind
C10_Witness ==
    /\ Returned
    /\ call.current_version = V123 \o <<"b">>
    /\ call.version_info.prerelease_version = 1
    /\ call.version_type = "beta"
    /\ manifest.version = V123 \o <<"b", "2">>

----------------------------------------------------------------------------
(* Claims about the pipeline *)

Done == pc = "done"

Invoked(cmd) == \E i \in 1..Len(log) : log[i].cmd = cmd

\* index of the first invocation of cmd in the log, 0 when there is none
FirstIndex(cmd) ==
    IF Invoked(cmd) THEN CHOOSE i \in 1..Len(log) :
                            log[i].cmd = cmd /\ \A j \in 1..(i - 1) : log[j].cmd # cmd
    ELSE 0

GitInvoked == Invoked("git pull") \/ Invoked("git push")

\* the directory the build of the run writes its output to
BuildDir == IF pipeline = "legacy" THEN "tmp" ELSE config.project_dir

\* the run ended with a failure outcome
FailureOutcome == outcome \in {"False", "exit 1"}

(* C1: a run that got past the version bump has run Cleanup by the time it *)
(* ends, whatever the earlier stages did.                                  *)
C1_CleanupAlwaysRuns ==
    (Done /\ stage["bump"] = "ok") => stage["cleanup"] = "ok"

(* C2: the upload client is invoked only after the build of the run has    *)
(* succeeded, the tag push only after the deploy has succeeded, and no     *)
(* stage is started before the preceding one has finished.                 *)
C2_StagesGated ==
    /\ Invoked("twine upload") =>
           /\ stage["build"] = "ok"
           /\ FirstIndex("build") > 0
           /\ FirstIndex("build") < FirstIndex("twine upload")
    /\ GitInvoked =>
           /\ stage["deploy"] = "ok"
           /\ FirstIndex("twine upload") < FirstIndex("git pull")
    /\ stage["build"] # "idle" => stage["bump"] = "ok"
    /\ stage["deploy"] # "idle" => stage["build"] = "ok"
    /\ stage["push"] # "idle" => stage["deploy"] = "ok"
    /\ stage["bump"] # "idle" => stage["rename"] \in {"idle", "ok"}
    /\ Cardinality({st \in Stages : stage[st] = "running"}) <= 1

\* a run in which build, upload and then the tag push were all invoked
C2_Witness ==
    /\ pipeline = "coordinator"
    /\ stage["build"] = "ok" /\ stage["deploy"] = "ok"
    /\ Invoked("twine upload")
    /\ Invoked("git pull")
    /\ Done

(* C3: in a run whose build fails, at the end the manifest holds the       *)
(* bumped version, deploy was never invoked, and the dist and build output *)
(* directories have been removed.                                          *)
C3_FailedBuildLeavesBumpAndCleans ==
    (Done /\ stage["build"] = "failed") =>
        /\ call.raised = "no"
        /\ manifest.version = call.new_version
        /\ manifest.version # call.current_version
        /\ stage["deploy"] = "idle"
        /\ ~Invoked("twine upload")
        /\ fs[<<BuildDir, "dist">>] = "absent"
        /\ fs[<<BuildDir, "build">>] = "absent"

(* C4: a run ends with a failure outcome exactly when the version bump,    *)
(* the build or the deploy stage failed; a failed tag push does not make   *)
(* the outcome a failure.                                                  *)
C4_FailureExactlyOnShortCircuit ==
    Done =>
        (FailureOutcome <=>
            \/ stage["bump"] = "failed"
            \/ stage["build"] = "failed"
            \/ stage["deploy"] = "failed")

(* C11: when the manifest's version cannot be parsed or the bump kind is   *)
(* not one bump_version handles, the run fails before any side effect: the *)
(* manifest on disk, package name included, is what it was before the run  *)
(* and no build, upload or push command was invoked.                       *)
C11_FailFast ==
    (call.raised \in {"InvalidVersionFormat", "InvalidVersionType"}) =>
        /\ manifest = pre_run.manifest
        /\ log = <<>>
        /\ stage["bump"] = "failed"
        /\ Done => FailureOutcome

\* position of a prerelease kind in the order alpha, beta, rc, release
StageRank(kind) ==
    CASE kind = "alpha" -> 1
      [] kind = "beta"  -> 2
      [] kind = "rc"    -> 3
      [] OTHER          -> 4

\* the last bump_version call returned and left major, minor, patch as
\* they were, on a version of one of the kinds of the data model
BumpKeptRelease ==
    /\ Returned
    /\ ParsedVersion(call.version_info).kind # "other"
    /\ LET n == parse_prerelease(call.new_version)
       IN  /\ ~n.raised
           /\ n.major = call.version_info.major
           /\ n.minor = call.version_info.minor
           /\ n.patch = call.version_info.patch

(* C12: for a fixed (major, minor, patch), no bump takes a version to an   *)
(* earlier stage of the order alpha, beta, rc, release.                    *)
C12_StageMonotonic ==
    BumpKeptRelease =>
        StageRank(ParsedVersion(parse_prerelease(call.new_version)).kind)
            >= StageRank(ParsedVersion(call.version_info).kind)

(* C12 as amended: for a fixed (major, minor, patch), a bump of kind       *)
(* alpha, beta or rc takes the version to the stage of that kind whatever  *)
(* the current stage is, and a patch bump of a prerelease takes it to the  *)
(* release; so the stage moves back exactly when the requested kind is     *)
(* earlier in the order than the current stage.                            *)
C12_StageFollowsBump ==
    BumpKeptRelease =>
        LET old == ParsedVersion(call.version_info).kind
            new == ParsedVersion(parse_prerelease(call.new_version)).kind
        IN  /\ call.version_type \in SpecKinds \cup {"patch"}
            /\ call.version_type \in SpecKinds => new = call.version_type
            /\ call.version_type = "patch" => (old # "none" /\ new = "none")
            /\ StageRank(new) < StageRank(old) <=>
                   (call.version_type \in SpecKinds
                        /\ StageRank(call.version_type) < StageRank(old))
            /\ manifest.version = call.new_version

\* a release candidate reached by a bump has been bumped back to alpha
C12_Witness ==
    /\ bumps = 2
    /\ Returned
    /\ call.current_version = V123 \o <<"r", "c", "1">>
    /\ call.version_type = "alpha"
    /\ manifest.version = V123 \o <<"a", "1">>

(* C13: for k in alpha, beta, rc and a version whose prerelease kind is k, *)
(* n bump_version calls of kind k in a row leave major, minor, patch and   *)
(* the kind unchanged and raise the prerelease number by exactly n.        *)
C13_SameKindBumps ==
    (/\ streak.n >= 1
     /\ streak.version_type \in SpecKinds
     /\ ParsedVersion(streak.from).kind = streak.version_type) =>
        LET n == parse_prerelease(manifest.version)
        IN  /\ ~n.raised
            /\ n.major = streak.from.major
            /\ n.minor = streak.from.minor
            /\ n.patch = streak.from.patch
            /\ ParsedVersion(n).kind = streak.version_type
            /\ n.prerelease_version = streak.from.prerelease_version + streak.n
            /\ vm_config.version = manifest.version

\* two rc bumps in a row of an rc version
C13_Witness ==
    /\ streak.n >= 2
    /\ streak.version_type = "rc"
    /\ ParsedVersion(streak.from).kind = "rc"
    /\ call.current_version = V123 \o <<"r", "c", "2">>
    /\ manifest.version = V123 \o <<"r", "c", "3">>

\* the invocations of the upload client in the log
Uploads == {i \in 1..Len(log) : log[i].cmd = "twine upload"}

(* C14: when the configuration has no repository URL, the deploy strategy  *)
(* the pipeline selected fails and the upload client is never invoked.     *)
C14_DeployRequiresUrl ==
    config.repository_url = NoUrl =>
        /\ Uploads = {}
        /\ stage["deploy"] \in {"idle", "failed"}

(* C15: in a run that is not a dry run and has the repository URL deploy   *)
(* requires, every invocation of the upload client, whichever deploy       *)
(* strategy the pipeline selected, carries the skip-if-already-published   *)
(* option.                                                                 *)
C15_UploadSkipsExisting ==
    (~config.dry_run /\ config.repository_url # NoUrl) =>
        \A i \in Uploads : "--skip-existing" \in log[i].flags

(* C16: in a dry run the deploy stage invokes the upload client as a local *)
(* check of the artifacts, never with its network upload command.          *)
C16_DryRunNoUpload ==
    config.dry_run =>
        \A i \in 1..Len(log) : log[i].cmd # "twine upload"

(* C19: after Cleanup the project tree is what it was before the run       *)
(* except for the manifest's version and name: every file that was there   *)
(* (a setup.py of the user, the manifest's build-system section) has its   *)
(* pre-run content, and nothing the run generated (dist, build, setup.py,  *)
(* .c sources) remains, for the Standard and the Cython build.             *)
C19_CleanupRestoresTree ==
    (Done /\ stage["cleanup"] = "ok") =>
        /\ \A p \in Paths :
              /\ pre_run.fs[p] = "user" => fs[p] = "user"
              /\ pre_run.fs[p] = "absent" => fs[p] = "absent"
        /\ manifest.requires = pre_run.manifest.requires
        /\ manifest.build_backend = pre_run.manifest.build_backend

\* the Cython strategy of the run has rewritten its manifest
CythonInjected ==
    /\ config.use_cython
    /\ stage["build"] # "idle"
    /\ pipeline = "legacy" => work_manifest # NoManifest

\* the manifest the Cython strategy of the run rewrites
InjectedManifest == IF pipeline = "legacy" THEN work_manifest ELSE manifest

\* the injection of the run applied once more to its own result
InjectedAgain ==
    IF pipeline = "legacy" THEN strategy_setup_cython_build(work_manifest)
    ELSE _setup_cython_build(manifest)

\* number of entries of a requires list that start with a dependency name
CountStarting(requires, dep) ==
    Cardinality({i \in 1..Len(requires) : startswith(requires[i], dep)})

(* C20: the Cython strategy appends a dependency name (setuptools, Cython) *)
(* to build-system.requires only if no entry starts with that name: an     *)
(* entry such as setuptools>=45 keeps a second setuptools entry out, and   *)
(* injecting twice gives the same list as injecting once.                  *)
C20_InjectionIdempotent ==
    CythonInjected =>
        LET before == pre_run.manifest.requires
            after  == InjectedManifest.requires
        IN  /\ Len(after) >= Len(before)
            /\ SubSeq(after, 1, Len(before)) = before
            /\ \A dep \in {<<"setuptools">>, <<"Cython">>} :
                  CountStarting(after, dep) =
                      IF CountStarting(before, dep) > 0
                      THEN CountStarting(before, dep) ELSE 1
            /\ InjectedAgain.requires = after

----------------------------------------------------------------------------
(* Claims about the launchers *)

\* the launcher has handed a configuration to the pipeline
Launched == pc = "start" /\ credentials # NoCredentials

\* --repository-name names a section of the credentials file
NameResolves ==
    args.repository_name \in {n \in Sections : pypirc[n].present}

\* the section of the credentials file for the target of the run
TargetSection ==
    IF NameResolves THEN args.repository_name
    ELSE IF args.repository_url # NoUrl /\ ContainsNexus(args.repository_url)
    THEN "nexus"
    ELSE IF args.repository_url # NoUrl /\ ContainsTestPyPI(args.repository_url)
    THEN "testpypi"
    ELSE "pypi"

\* the target of the run is PyPI or TestPyPI
TargetIsPyPI ==
    LET url == IF NameResolves THEN pypirc[args.repository_name].repository
               ELSE args.repository_url
    IN  url = NoUrl \/ ContainsPyPI(url)

\* what each source of credentials supplies for kind ("" when nothing)
FromArgs(kind) == args[kind]

FromEnviron(kind) ==
    IF kind = "username"
    THEN Or(environ["TWINE_USERNAME"],
            IF TargetIsPyPI THEN environ["PYPI_USERNAME"] ELSE environ["NEXUS_USERNAME"])
    ELSE Or(environ["TWINE_PASSWORD"],
            IF TargetIsPyPI THEN environ["PYPI_TOKEN"] ELSE environ["NEXUS_PASSWORD"])

FromFile(kind) == pypirc[TargetSection][kind]

\* the value of the highest source that supplies one, the prompt aside
HighestSupplied(kind) == Or(FromArgs(kind), Or(FromEnviron(kind), FromFile(kind)))

(* C17: for each of username and password, the value the launcher hands to *)
(* the pipeline is the one of the highest source that supplies it, in the  *)
(* order arguments, environment, credentials file, prompt; neither the     *)
(* file entry of a named repository nor the prompt of --interactive        *)
(* replaces a value a higher source supplies.                              *)
C17_CredentialPrecedence ==
    Launched =>
        \A kind \in {"username", "password"} :
            HighestSupplied(kind) # "" => credentials[kind] = HighestSupplied(kind)

\* a repository target the launcher can resolve is given
Resolvable == args.repository_url # NoUrl \/ NameResolves

\* the launcher rejected the invocation for its repository target
TargetRejected == pc = "rejected" /\ outcome \in {"usage error", "name not found"}

(* C18: the launcher of __init__.py rejects the invocation for its target, *)
(* before any manifest write, build, upload or push, exactly when no       *)
(* resolvable repository target is present; it does not reject when a      *)
(* repository URL is given.                                                *)
C18_RejectsExactlyUnresolvable ==
    (pipeline = "coordinator" /\ pc \in {"start", "rejected"}) =>
        /\ TargetRejected <=> ~Resolvable
        /\ args.repository_url # NoUrl => ~TargetRejected
        /\ pc = "rejected" => (manifest = pre_run.manifest /\ log = <<>>)

----------------------------------------------------------------------------
(* Claims about the manifest file, the tag push and the dry run *)

IsRead(e) == e = "read"

IsWrite(e) == e \in {"write name", "write version", "write build-system"}

IsPrefix(a, b) == Len(a) <= Len(b) /\ SubSeq(b, 1, Len(a)) = a

(* C21: in every run, for both build variants, the project's manifest is   *)
(* read exactly once and written at most twice, and the only writes are    *)
(* the rename write and the bump write, in that order.                     *)
C21_ReadOnceWrittenTwice ==
    /\ Len(SelectSeq(manifest_io, IsRead)) = 1
    /\ SelectSeq(manifest_io, IsWrite) \in
           { <<>>, <<"write name">>, <<"write version">>,
             <<"write name", "write version">> }

\* what a run does with the manifest file when every stage is reached
ExpectedManifestIO ==
    <<"read">>
        \o (IF pipeline = "legacy" /\ config.package_name # pre_run.manifest.name
            THEN <<"write name">> ELSE <<>>)
        \o <<"write version">>
        \o (IF pipeline = "legacy" THEN <<"copy">>
            ELSE IF config.use_cython THEN <<"read", "write build-system">>
            ELSE <<>>)

(* C21 as amended: the manifest is read when the version manager is        *)
(* constructed and written at most twice. With the Standard build the only *)
(* writes are the rename write and the bump write, in that order (the      *)
(* older pipeline then copies the file to its temporary directory); with   *)
(* the Cython build of the coordinator the manifest is read a second time  *)
(* and rewritten with its build-system section after the bump write.       *)
C21_ManifestIOByVariant ==
    /\ IsPrefix(manifest_io, ExpectedManifestIO)
    /\ Len(SelectSeq(manifest_io, IsWrite)) <= 2
    /\ Len(SelectSeq(manifest_io, IsRead)) \in {1, 2}
    /\ (Len(SelectSeq(manifest_io, IsRead)) = 2) =>
           (pipeline = "coordinator" /\ config.use_cython)
    /\ (Done /\ stage["build"] # "idle") => manifest_io = ExpectedManifestIO

\* a Cython run of the coordinator has ended after its build
C21_Witness ==
    /\ Done
    /\ pipeline = "coordinator" /\ config.use_cython
    /\ stage["build"] = "ok"
    /\ manifest_io = <<"read", "write version", "read", "write build-system">>

IsGit(c) == c.cmd \in {"git pull", "git push"}

\* the source-control commands issued so far, in order
GitLog == SelectSeq(log, IsGit)

(* C22: the tag push issues pull, push --tags --force, push in that order, *)
(* a command only if every earlier one succeeded, and a failure of any of  *)
(* them is caught inside the stage: the coordinator goes on to Cleanup and *)
(* does not end with its failure outcome.                                  *)
C22_TagPushOrder ==
    /\ IsPrefix(GitLog, GitCommands)
    /\ Len(git_status) = Len(GitLog)
    /\ \A i \in 1..Len(git_status) : \A j \in 1..(i - 1) : git_status[j] = 0
    /\ stage["push"] = "ok" <=>
           (Len(git_status) = Len(GitCommands)
                /\ \A i \in 1..Len(git_status) : git_status[i] = 0)
    /\ stage["push"] = "failed" =>
           /\ git_status # <<>> /\ git_status[Len(git_status)] # 0
           /\ pc \in {"cleanup", "done"}
           /\ Done => (stage["cleanup"] = "ok" /\ ~FailureOutcome)

\* the pull succeeded, the tag push failed, and the run went on to its end
C22_Witness ==
    /\ Done
    /\ stage["push"] = "failed"
    /\ git_status = <<0, 1>>
    /\ GitLog = SubSeq(GitCommands, 1, 2)
    /\ stage["cleanup"] = "ok"

(* C23: every bump_version call that returns has changed the version: the  *)
(* string it returns and writes differs from the current one, for every    *)
(* version parse_prerelease accepts and every bump kind.                   *)
C23_BumpChangesVersion ==
    Returned =>
        /\ call.new_version # call.current_version
        /\ manifest.version # call.current_version

(* C24: every value the command line accepts for --version-type is a bump  *)
(* kind bump_version accepts, so no run fails with an invalid bump kind,   *)
(* and every bump kind of the state machine (patch, minor, major, alpha,   *)
(* beta, rc) can be selected from the command line.                        *)
C24_LauncherAgreesOnBumpKinds ==
    /\ config.version_type \in HandledVersionTypes
    /\ call.raised # "InvalidVersionType"
    /\ \A kind \in {"patch", "minor", "major", "alpha", "beta", "rc"} :
          kind \in version_type_choices(pipeline)

(* C25: in a run started with the dry-run flag no source-control push      *)
(* command is ever issued, whatever the build and the deploy stage did.    *)
C25_DryRunNoPush ==
    config.dry_run =>
        \A i \in 1..Len(log) : log[i].cmd # "git push"

(* C26: after Cleanup the dist and build directories of the project        *)
(* directory given with --project-dir do not exist, also when it is not    *)
(* the working directory, and no dist or build directory outside the       *)
(* project directory has been removed.                                     *)
C26_CleanupInProjectDir ==
    (pipeline = "coordinator" /\ stage["cleanup"] = "ok") =>
        /\ fs[<<config.project_dir, "dist">>] = "absent"
        /\ fs[<<config.project_dir, "build">>] = "absent"
        /\ \A d \in Dirs \ {config.project_dir} :
              /\ fs[<<d, "dist">>] = pre_run.fs[<<d, "dist">>]
              /\ fs[<<d, "build">>] = pre_run.fs[<<d, "build">>]

----------------------------------------------------------------------------
(* Claims about get_credentials *)

\* get_credentials has been called and has come back
CredentialsCalled == credentials.calls >= 1

(* C27: get_credentials ends with a result or an error, and within one     *)
(* top-level call it re-enters itself at most once: the call it makes of   *)
(* itself is made with interactive set, not dry-run, no username and no    *)
(* password, asks for both at the forced prompt and returns or raises      *)
(* there.                                                                  *)
C27_RecursionBounded ==
    CredentialsCalled =>
        /\ credentials.calls <= 2
        /\ pc \in {"start", "rejected"}
        /\ credentials.raised <=> (pc = "rejected" /\ outcome = "credentials required")
        /\ credentials.calls = 2 =>
              /\ args.interactive /\ ~args.dry_run
              /\ args.username = "" /\ args.password = ""
              /\ credentials.asked = <<"Proceed", "Username", "Password">>
              /\ credentials.raised <=> credentials.password = ""

C27_Witness ==
    /\ credentials.calls = 2
    /\ ~credentials.raised
    /\ pc = "start"

(* C28: in a dry run get_credentials issues no prompt and raises no error, *)
(* whatever the arguments, the environment and the credentials file: it    *)
(* returns the username and the password, empty or not, that the           *)
(* arguments, the environment and the file supply.                         *)
C28_DryRunNeverPrompts ==
    (args.dry_run /\ CredentialsCalled) =>
        /\ credentials.asked = <<>>
        /\ ~credentials.raised
        /\ credentials.calls = 1
        /\ pc = "start"
        /\ \A kind \in {"username", "password"} :
              credentials[kind] = HighestSupplied(kind)

C28_Witness ==
    /\ args.dry_run /\ CredentialsCalled
    /\ args.interactive
    /\ args.repository_url = NexusUrl
    /\ credentials.username = "file-nexus-user"
    /\ credentials.password = ""

----------------------------------------------------------------------------
(* Claims about the version the manifest holds *)

\* some bump_version call of the run has returned and written its version
SomeBumpReturned == \E i \in 1..Len(manifest_io) : manifest_io[i] = "write version"

(* C29: the manifest version stays parseable: from any version             *)
(* parse_prerelease accepts, after any number of bump_version calls that   *)
(* returned, the version in the manifest is accepted by parse_prerelease,  *)
(* is the string the last such call returned, and is the version of the    *)
(* in-memory configuration.                                                *)
C29_VersionStaysParseable ==
    /\ SomeBumpReturned =>
          /\ ~parse_prerelease(manifest.version).raised
          /\ vm_config.version = manifest.version
    /\ Returned =>
          /\ SomeBumpReturned
          /\ manifest.version = call.new_version
    /\ (Called /\ ~Returned) =>
          /\ manifest.version = call.current_version
          /\ vm_config.version = manifest.version

C29_Witness ==
    /\ pipeline = "version"
    /\ bumps = 2
    /\ Returned
    /\ call.version_type = "rc"
    /\ call.version_info.prerelease_type = <<"r", "c">>
    /\ manifest.version = call.new_version
    /\ manifest.version # call.current_version

====
